---- MODULE Spec2Model ----
(***************************************************************************)
(* A model of art-engine/app.py: the layer catalogue built by join_layers, *)
(* the weighted draw, the duplicate check and the artifact writes of run(). *)
(***************************************************************************)
EXTENDS Integers, Sequences, FiniteSets, TLC

VARIABLES
    config_file,    \* the configuration read_yaml returned, as held in memory; of a
                    \* rarities list, the zeros past position MaxRarLen are not recorded
    decodable,      \* TRUE when every asset file found on disk can be opened and decoded
    dna_set,        \* run(): the set of accepted combinations
    edition,        \* run(): the edition counter
    desired_amount, \* run(): the loop limit
    token_layers,   \* run(): the combination returned by the last join_layers call
    pc,             \* the statement of run() that executes next
    json_files,     \* build/json: one record per write, in write order
    image_files,    \* build/images: one record per write, in write order
    catalog,        \* the lists the last join_layers call built, one record per layer
    first_catalog,  \* the lists the first join_layers call built
    rich_done,      \* rich_metadata.update_metadata has rewritten the JSON files
    ranked,         \* rarity_rank.add_rarity_rank has added the ranks
    message         \* the instructional message of run()'s except branch was printed

vars == <<config_file, decodable, dna_set, edition, desired_amount, token_layers, pc,
          json_files, image_files, catalog, first_catalog, rich_done, ranked, message>>

(* ------------------------------ bounds -------------------------------- *)

\* the largest `amount` of a configuration
MaxAmount == 2
\* the largest number of image files in one asset directory
MaxFiles == 2
\* the largest number of weights declared in one rarities list
MaxRarities == 2
\* the number of entries of an in-memory rarities list that are recorded whatever
\* their value: the list of a flat layer that is not required grows by one entry
\* with every call of join_layers
MaxRarLen == 7

\* the weights a configuration declares
WeightVals == {0, 50, 60}
\* declared lists whose normalisation meets the rounding of float arithmetic
SpecialRarities == {<<29, 21>>}

(* ------------------------------ helpers ------------------------------- *)

\* the sentinel the code appends for a layer that is not required
None == <<0, 0>>

RECURSIVE Sum(_)
Sum(s) == IF s = <<>> THEN 0 ELSE Head(s) + Sum(Tail(s))

Abs(x) == IF x < 0 THEN -x ELSE x

RECURSIVE Concat(_)
Concat(ss) == IF ss = <<>> THEN <<>> ELSE Head(ss) \o Concat(Tail(ss))

Zeros(n) == [i \in 1..n |-> 0]

\* the percentages k for which the double (k / 100) * 100 is below k
FloatShort == {29, 57, 58}

\* int((r / total) * 100) in double arithmetic, for total # 0 and |r| <= |total|
IntPercent(r, total) ==
    LET a == Abs(r) * 100
        b == Abs(total)
        q == a \div b
        m == IF a % b = 0 /\ q \in FloatShort THEN q - 1 ELSE q
    IN IF (r < 0) = (total < 0) THEN m ELSE -m

(* --------------------------- join_layers ------------------------------ *)

\* the sorted image files of one directory holding n files; t is 0 for the
\* layer's own directory and the position of the sub-type otherwise
DirFiles(t, n) == [k \in 1..n |-> <<t, k>>]

\* all_layers as read from disk
ScanLayers(layer) ==
    IF layer.has_types
    THEN Concat([t \in 1..Len(layer.files) |-> DirFiles(t, layer.files[t])])
    ELSE DirFiles(0, layer.files[1])

\* all_rarities as taken from the configuration
ScanRarities(layer) ==
    IF layer.has_types THEN Concat(layer.types) ELSE layer.rarities

\* all_layers after the optional "None" entry
WithNoneLayers(layer) ==
    IF layer.required THEN ScanLayers(layer) ELSE Append(ScanLayers(layer), None)

\* all_rarities after the optional weight of "None"
WithNoneRarities(layer) ==
    LET r == ScanRarities(layer)
    IN IF layer.required THEN r ELSE Append(r, 100 - Sum(r))

\* all_rarities after padding or truncating it to the number of candidates
RepairNoPad(all_layers, all_rarities) ==
    IF Len(all_layers) < Len(all_rarities)
    THEN SubSeq(all_rarities, 1, Len(all_layers))
    ELSE all_rarities

RepairKeepTail(all_layers, all_rarities) ==
    IF Len(all_layers) > Len(all_rarities)
    THEN all_rarities \o Zeros(Len(all_layers) - Len(all_rarities))
    ELSE SubSeq(all_rarities, Len(all_rarities) - Len(all_layers) + 1, Len(all_rarities))

Repair(all_layers, all_rarities) ==
    IF Len(all_layers) > Len(all_rarities)
    THEN all_rarities \o Zeros(Len(all_layers) - Len(all_rarities))
    ELSE SubSeq(all_rarities, 1, Len(all_layers))

\* the list comprehension of the normalisation divides by a total of zero
NormalizeError(all_rarities) ==
    Sum(all_rarities) = 0 /\ Len(all_rarities) > 0

\* all_rarities after the normalisation
Normalize(all_rarities) ==
    IF Sum(all_rarities) # 100 /\ ~NormalizeError(all_rarities)
    THEN [i \in 1..Len(all_rarities) |-> IntPercent(all_rarities[i], Sum(all_rarities))]
    ELSE all_rarities

\* layer['rarities'] as the call leaves it in memory: the list of a flat layer
\* is the list the call appends to and pads; a truncation makes a new list
RaritiesAfterCall(layer) ==
    LET l == WithNoneLayers(layer)
        r == WithNoneRarities(layer)
    IN IF layer.has_types THEN layer.rarities
       ELSE IF Len(l) > Len(r) THEN Repair(l, r) ELSE r

\* the lists one call of join_layers builds for one layer: the candidates, the
\* weights after the optional weight of "None", after the repair and after the
\* normalisation
LayerLists(layer) ==
    LET l == WithNoneLayers(layer)
        r == WithNoneRarities(layer)
        a == Repair(l, r)
    IN [all_layers |-> l, appended |-> r, adjusted |-> a, all_rarities |-> Normalize(a)]

\* bisect.bisect(a, x, lo, hi) with 0-based positions
RECURSIVE Bisect(_, _, _, _)
Bisect(a, x, lo, hi) ==
    IF lo < hi
    THEN LET mid == (lo + hi) \div 2
         IN IF x < a[mid + 1] THEN Bisect(a, x, lo, mid) ELSE Bisect(a, x, mid + 1, hi)
    ELSE lo

\* random.choices(population, weights=weights) raises
ChoicesError(population, weights) ==
    \/ Len(weights) # Len(population)
    \/ Len(population) = 0
    \/ Sum(weights) <= 0

\* the values random.choices(population, weights=weights)[0] can return:
\* random() * total lies in [0, total), and the cumulative weights are integers
Choices(population, weights) ==
    LET cum == [i \in 1..Len(weights) |-> Sum(SubSeq(weights, 1, i))]
        \* bisect compares x with cumulative weights only, so the x at which its
        \* result can change are 0 and the cumulative weights below the total
        xs == {x \in {0} \cup {cum[i] : i \in 1..Len(cum)} : 0 <= x /\ x < Sum(weights)}
    IN {population[Bisect(cum, x, 0, Len(population) - 1) + 1] : x \in xs}

\* the call of join_layers raises while it processes this layer
LayerError(layer) ==
    LET c == LayerLists(layer)
    IN NormalizeError(c.adjusted) \/ ChoicesError(c.all_layers, c.all_rarities)

\* the candidates the draw of this layer can return
LayerChoices(layer) ==
    LET c == LayerLists(layer)
    IN IF LayerError(layer) THEN {} ELSE Choices(c.all_layers, c.all_rarities)

\* a rarities list as the state records it: the list without the zeros that
\* follow position MaxRarLen at its end. A call reads the first len(all_layers)
\* entries of the list, its sum, and whether it is shorter than all_layers, and
\* none of these depends on those zeros
RECURSIVE Recorded(_)
Recorded(list) ==
    IF Len(list) > MaxRarLen /\ list[Len(list)] = 0
    THEN Recorded(SubSeq(list, 1, Len(list) - 1))
    ELSE list

\* what one call of join_layers does for one layer: the lists it builds and the
\* candidates its draw can return
LayerCatalog(layer) ==
    LET c == LayerLists(layer)
    IN [all_layers |-> c.all_layers, appended |-> Recorded(c.appended),
        adjusted |-> c.adjusted, all_rarities |-> c.all_rarities,
        choices |-> LayerChoices(layer)]

\* the layer as the call leaves it in memory
LayerAfterCall(layer) == [layer EXCEPT !.rarities = Recorded(RaritiesAfterCall(layer))]

(* --------------------------- configurations --------------------------- *)

RaritySeqs == UNION {[1..m -> WeightVals] : m \in 0..MaxRarities} \cup SpecialRarities

\* a layer whose files lie in the layer's own directory
FlatLayers ==
    {[has_types |-> FALSE, types |-> <<>>, rarities |-> w, files |-> <<n>>, required |-> q] :
        n \in 0..MaxFiles, w \in RaritySeqs, q \in BOOLEAN}

\* the rarities lists of one sub-type
TypeRarities == {<<>>, <<0>>, <<50>>}

\* a layer with two sub-type directories of at most one file each
NestedLayers ==
    {[has_types |-> TRUE, types |-> ts, rarities |-> <<>>, files |-> ns, required |-> q] :
        ts \in TypeRarities \X TypeRarities, ns \in {0, 1} \X {0, 1}, q \in BOOLEAN}

Layers == FlatLayers \cup NestedLayers

\* the layers of the configurations of whole runs: a weight of 50 for each file
\* of each directory, and a file in the first sub-type's directory
RunLayers ==
    {l \in Layers : /\ \A i \in 1..Len(ScanRarities(l)) : ScanRarities(l)[i] = 50
                    /\ ~l.has_types => Len(l.rarities) = l.files[1]
                    /\ l.has_types => /\ \A t \in 1..Len(l.files) : Len(l.types[t]) = l.files[t]
                                      /\ l.files[1] = 1}

\* the layers of the configurations with two layers: at most one file in a directory
PairLayers == {l \in RunLayers : \A t \in 1..Len(l.files) : l.files[t] <= 1}

Config(layers, amount, id_from_one, draw_background, rich_metadata, paintswap_metadata) ==
    [layers |-> layers, amount |-> amount, id_from_one |-> id_from_one,
     draw_background |-> draw_background, rich_metadata |-> rich_metadata,
     paintswap_metadata |-> paintswap_metadata]

(* ------------------------------- run() -------------------------------- *)

NumLayers == Len(config_file.layers)

StartOffset == IF config_file.id_from_one THEN 1 ELSE 0

\* the state of run() when it reaches its loop with this configuration
Start(cfg, ok) ==
    /\ config_file = cfg
    /\ decodable = ok
    /\ dna_set = {}
    /\ edition = IF cfg.id_from_one THEN 1 ELSE 0
    /\ desired_amount = IF cfg.id_from_one THEN cfg.amount + 1 ELSE cfg.amount
    /\ token_layers = <<>>
    /\ pc = "loop"
    /\ json_files = <<>>
    /\ image_files = <<>>
    /\ catalog = <<>>
    /\ first_catalog = <<>>
    /\ rich_done = FALSE
    /\ ranked = FALSE
    /\ message = FALSE

\* one or two layers, every switch of the configuration
Init ==
    \E ls \in {<<l>> : l \in RunLayers} \cup (PairLayers \X PairLayers),
       amount \in 0..MaxAmount, id, bg, rich, ps, ok \in BOOLEAN :
        Start(Config(ls, amount, id, bg, rich, ps), ok)

\* the layers whose rarities list in memory stops growing: the list of a flat layer
\* that is not required grows with every call
LiveLayers == {l \in RunLayers : l.has_types \/ l.required}

LiveConfigs == {<<l>> : l \in LiveLayers} \cup ((LiveLayers \cap PairLayers) \X (LiveLayers \cap PairLayers))

\* one or two such layers, without post-processing
LiveInit ==
    \E ls \in LiveConfigs, amount \in 0..MaxAmount, bg, ok \in BOOLEAN :
        Start(Config(ls, amount, FALSE, bg, FALSE, FALSE), ok)

\* one layer of any shape
CatalogInit ==
    \E l \in Layers, bg, rich, ps \in BOOLEAN :
        Start(Config(<<l>>, MaxAmount, FALSE, bg, rich, ps), TRUE)

\* the first of these layers whose processing raises, or 0
FirstErrorOf(layers) ==
    IF \E l \in 1..Len(layers) : LayerError(layers[l])
    THEN CHOOSE l \in 1..Len(layers) :
            /\ LayerError(layers[l])
            /\ \A k \in 1..(l - 1) : ~LayerError(layers[k])
    ELSE 0

FirstError == FirstErrorOf(config_file.layers)

\* the combinations one call of join_layers can return for these layers
DrawableOf(layers) ==
    LET ch == [l \in 1..Len(layers) |-> LayerChoices(layers[l])]
    IN IF FirstErrorOf(layers) # 0 THEN {}
       ELSE {c \in [1..Len(layers) -> UNION {ch[l] : l \in 1..Len(layers)}] :
               \A l \in 1..Len(layers) : c[l] \in ch[l]}

Drawable == DrawableOf(config_file.layers)

\* the layers in memory after a call that processed layers 1..k
LayersAfterCall(k) ==
    [l \in 1..NumLayers |->
        IF l <= k THEN LayerAfterCall(config_file.layers[l]) ELSE config_file.layers[l]]

\* the lists a call that processed layers 1..k built
CatalogOfCall(k) == [l \in 1..k |-> LayerCatalog(config_file.layers[l])]

CallEffects(k) ==
    /\ config_file' = [config_file EXCEPT !.layers = LayersAfterCall(k)]
    /\ catalog' = CatalogOfCall(k)
    /\ first_catalog' = IF first_catalog = <<>> THEN CatalogOfCall(k) ELSE first_catalog

\* token_layers = join_layers(config_file) returns c
JoinLayers(c) ==
    /\ pc = "loop"
    /\ edition < desired_amount
    /\ FirstError = 0
    /\ Len(c) = NumLayers
    /\ \A l \in 1..NumLayers : c[l] \in LayerChoices(config_file.layers[l])
    /\ CallEffects(NumLayers)
    /\ token_layers' = c
    /\ pc' = "check"
    /\ UNCHANGED <<decodable, dna_set, edition, desired_amount, json_files, image_files,
                   rich_done, ranked, message>>

\* join_layers raises: a division by a zero total, or random.choices rejects the lists
JoinLayersFails ==
    /\ pc = "loop"
    /\ edition < desired_amount
    /\ FirstError # 0
    /\ CallEffects(FirstError)
    /\ pc' = "aborted"
    /\ UNCHANGED <<decodable, dna_set, edition, desired_amount, token_layers, json_files,
                   image_files, rich_done, ranked, message>>

\* token_layers in dna_set
IsDuplicateNever(layers, set) == FALSE

IsDuplicate(layers, set) == layers \in set

\* the else branch of the membership test
Reject ==
    /\ pc = "check"
    /\ IsDuplicate(token_layers, dna_set)
    /\ pc' = "loop"
    /\ UNCHANGED <<config_file, decodable, dna_set, edition, desired_amount, token_layers,
                   json_files, image_files, catalog, first_catalog, rich_done, ranked, message>>

\* the attributes create_metadata collects: one per layer whose choice is not "None",
\* with the layer's name, the file's directory and the file's stem
Attributes(final_layers) ==
    LET kept == {l \in 1..Len(final_layers) : final_layers[l] # None}
        Rank(l) == Cardinality({k \in kept : k <= l})
    IN [i \in 1..Cardinality(kept) |->
          LET l == CHOOSE l \in kept : Rank(l) = i
          IN [trait_type |-> l, value |-> final_layers[l][1], sub_value |-> final_layers[l][2]]]

\* the file create_metadata writes: its number, its edition field and its attributes;
\* final_layers records the combination the call was given
MetadataNextEdition(ed, final_layers) ==
    [file |-> ed, edition |-> ed + 1, attributes |-> Attributes(final_layers),
     final_layers |-> final_layers]

Metadata(ed, final_layers) ==
    [file |-> ed, edition |-> ed, attributes |-> Attributes(final_layers),
     final_layers |-> final_layers]

\* create_metadata(config_file, edition, token_layers), on a combination not in dna_set
CreateMetadataInsertFirst ==
    /\ pc = "check"
    /\ ~IsDuplicate(token_layers, dna_set)
    /\ dna_set' = dna_set \cup {token_layers}
    /\ json_files' = Append(json_files, Metadata(edition, token_layers))
    /\ pc' = "image"
    /\ UNCHANGED <<config_file, decodable, edition, desired_amount, token_layers,
                   image_files, catalog, first_catalog, rich_done, ranked, message>>

CreateMetadata ==
    /\ pc = "check"
    /\ ~IsDuplicate(token_layers, dna_set)
    /\ json_files' = Append(json_files, Metadata(edition, token_layers))
    /\ pc' = "image"
    /\ UNCHANGED <<config_file, decodable, dna_set, edition, desired_amount, token_layers,
                   image_files, catalog, first_catalog, rich_done, ranked, message>>

\* the files create_image opens, in order
Opened(final_layers) ==
    LET rest == IF config_file.draw_background THEN final_layers ELSE Tail(final_layers)
        over == SelectSeq(rest, LAMBDA f : f # None)
    IN IF config_file.draw_background THEN over ELSE <<Head(final_layers)>> \o over

\* create_image raises: "None" is opened as the base image, or a file does not decode
ImageError(final_layers) ==
    \/ ~config_file.draw_background /\ Head(final_layers) = None
    \/ ~decodable /\ Opened(final_layers) # <<>>

\* the file create_image saves: its number, whether the canvas is the background
\* colour, and the files composited in order; final_layers as for the metadata
Image(ed, final_layers) ==
    [file |-> ed, background |-> config_file.draw_background,
     composited |-> Opened(final_layers), final_layers |-> final_layers]

\* create_image(config_file, edition, token_layers) returns
CreateImage ==
    /\ pc = "image"
    /\ ~ImageError(token_layers)
    /\ image_files' = Append(image_files, Image(edition, token_layers))
    /\ pc' = "add"
    /\ UNCHANGED <<config_file, decodable, dna_set, edition, desired_amount, token_layers,
                   json_files, catalog, first_catalog, rich_done, ranked, message>>

\* create_image raises and run() is aborted
CreateImageFails ==
    /\ pc = "image"
    /\ ImageError(token_layers)
    /\ pc' = "aborted"
    /\ UNCHANGED <<config_file, decodable, dna_set, edition, desired_amount, token_layers,
                   json_files, image_files, catalog, first_catalog, rich_done, ranked, message>>

\* dna_set.add(token_layers)
DnaAdd ==
    /\ pc = "add"
    /\ dna_set' = dna_set \cup {token_layers}
    /\ pc' = "inc"
    /\ UNCHANGED <<config_file, decodable, edition, desired_amount, token_layers,
                   json_files, image_files, catalog, first_catalog, rich_done, ranked, message>>

\* edition += 1
IncEdition ==
    /\ pc = "inc"
    /\ edition' = edition + 1
    /\ pc' = "loop"
    /\ UNCHANGED <<config_file, decodable, dna_set, desired_amount, token_layers,
                   json_files, image_files, catalog, first_catalog, rich_done, ranked, message>>

\* the loop condition is false
ExitLoop ==
    /\ pc = "loop"
    /\ ~(edition < desired_amount)
    /\ pc' = "rich"
    /\ UNCHANGED <<config_file, decodable, dna_set, edition, desired_amount, token_layers,
                   json_files, image_files, catalog, first_catalog, rich_done, ranked, message>>

\* the rich_metadata block
RichMetadata ==
    /\ pc = "rich"
    /\ IF config_file.rich_metadata
       THEN /\ edition' = StartOffset
            /\ desired_amount' = config_file.amount + StartOffset
            /\ rich_done' = TRUE
       ELSE UNCHANGED <<edition, desired_amount, rich_done>>
    /\ pc' = "paintswap"
    /\ UNCHANGED <<config_file, decodable, dna_set, token_layers, json_files, image_files,
                   catalog, first_catalog, ranked, message>>

\* rarity_rank.calculate_mean raises FileNotFoundError
RarityRankFails == ~rich_done

\* where run() continues once the FileNotFoundError of the rarity rank is raised
AfterFileNotFoundUncaught == [pc |-> "aborted", message |-> FALSE]

AfterFileNotFound == [pc |-> "done", message |-> TRUE]

\* the paintswap_metadata block
Paintswap ==
    /\ pc = "paintswap"
    /\ IF ~config_file.paintswap_metadata
       THEN pc' = "done" /\ UNCHANGED <<ranked, message>>
       ELSE IF RarityRankFails
            THEN /\ pc' = AfterFileNotFound.pc
                 /\ message' = AfterFileNotFound.message
                 /\ UNCHANGED ranked
            ELSE pc' = "done" /\ ranked' = TRUE /\ UNCHANGED message
    /\ UNCHANGED <<config_file, decodable, dna_set, edition, desired_amount, token_layers,
                   json_files, image_files, catalog, first_catalog, rich_done>>

Next ==
    \/ \E c \in Drawable : JoinLayers(c)
    \/ JoinLayersFails
    \/ Reject
    \/ CreateMetadata
    \/ CreateImage
    \/ CreateImageFails
    \/ DnaAdd
    \/ IncEdition
    \/ ExitLoop
    \/ RichMetadata
    \/ Paintswap

Spec == Init /\ [][Next]_vars

CatalogSpec == CatalogInit /\ [][Next]_vars

\* the statements of run() other than the call of join_layers
Statement ==
    \/ Reject
    \/ CreateMetadata
    \/ CreateImage
    \/ CreateImageFails
    \/ DnaAdd
    \/ IncEdition
    \/ ExitLoop
    \/ RichMetadata
    \/ Paintswap

\* a call of join_layers returns or raises, as seen on pc: in the loop, below
\* the requested amount, one of JoinLayers and JoinLayersFails is enabled
Call ==
    /\ pc = "loop"
    /\ edition < desired_amount
    /\ pc' \in {"check", "aborted"}

\* the combinations the last call of join_layers could return; a call leaves the
\* layers of LiveInit as they are, so these are the ones the next call can return
LastDrawable ==
    {c \in [1..Len(catalog) -> UNION {catalog[l].choices : l \in 1..Len(catalog)}] :
        \A l \in 1..Len(catalog) : c[l] \in catalog[l].choices}

\* a later call of join_layers returns a combination that is not in dna_set, as
\* seen on pc and token_layers
FreshDraw ==
    /\ pc = "loop"
    /\ edition < desired_amount
    /\ catalog # <<>>
    /\ token_layers' \in LastDrawable \ dna_set
    /\ pc' = "check"

\* run() always executes its next statement, and while the draw can again and
\* again return a combination not yet accepted, it returns one at some time
\* (as it does when every drawable combination is drawn at some time)
Fairness ==
    /\ WF_vars(Statement)
    /\ WF_pc(Call)
    /\ SF_<<pc, token_layers>>(FreshDraw)

LiveSpec == LiveInit /\ [][Next]_vars /\ Fairness

(* ------------------------------ claims -------------------------------- *)

\* the loop of run() has ended because edition reached desired_amount
LoopEnded == pc \in {"rich", "paintswap", "done"}

\* run() has stopped
Stopped == pc \in {"done", "aborted"}

FileNumbers(files) == [i \in 1..Len(files) |-> files[i].file]

HasJson(c) == \E i \in 1..Len(json_files) : json_files[i].final_layers = c

HasImage(c) == \E i \in 1..Len(image_files) : image_files[i].final_layers = c

\* C1: no two tokens for which an artifact was written have the same
\* combination: any two of them differ in the choice of at least one layer.
C1_NoDuplicateCombination ==
    \A i, j \in 1..Len(json_files) :
        i # j => \E l \in 1..NumLayers :
                    json_files[i].final_layers[l] # json_files[j].final_layers[l]

\* C1 witness: the loop has ended with two tokens after three calls of
\* join_layers (each call makes the rarities list of a flat optional layer one
\* longer), so one trial was rejected as a duplicate.
C1_Witness ==
    /\ pc = "rich"
    /\ Len(image_files) = 2
    /\ NumLayers = 1
    /\ ~config_file.layers[1].has_types
    /\ ~config_file.layers[1].required
    /\ Len(config_file.layers[1].rarities) = Len(first_catalog[1].appended) + 2

\* C2: between trials and at the end of the loop, the JSON files and the images
\* written are those of the editions start_offset .. edition-1, each written once
\* and in this order, each JSON's edition field is the number in its file name,
\* and at the end of the loop these are `amount` editions.
C2_ContiguousEditions ==
    pc \in {"loop", "rich"} =>
        /\ FileNumbers(json_files) = [i \in 1..(edition - StartOffset) |-> StartOffset + i - 1]
        /\ FileNumbers(image_files) = FileNumbers(json_files)
        /\ \A i \in 1..Len(json_files) : json_files[i].edition = json_files[i].file
        /\ pc = "rich" => Len(json_files) = config_file.amount

\* C2 witness: a run numbered from one has ended its loop with two editions.
C2_Witness ==
    /\ pc = "rich"
    /\ config_file.id_from_one
    /\ config_file.amount = 2
    /\ FileNumbers(image_files) = <<1, 2>>

\* C7: with paintswap_metadata on and rich_metadata off, the step of the rarity
\* rank prints the instructional message, ends run() normally and leaves the
\* JSON files, the images and the ranks as they were.
C7_MissingRichMetadataCaught ==
    [][(pc = "paintswap" /\ config_file.paintswap_metadata /\ ~config_file.rich_metadata)
        => (/\ pc' = "done"
            /\ message'
            /\ json_files' = json_files
            /\ image_files' = image_files
            /\ ranked' = ranked)]_vars

\* C7 witness: such a run has ended normally with its message and its files.
C7_Witness ==
    /\ pc = "done"
    /\ config_file.paintswap_metadata
    /\ ~config_file.rich_metadata
    /\ message
    /\ Len(json_files) = 2
    /\ Len(image_files) = 2

\* C8 as claimed: the combination of every token that has an artifact is in the
\* set of accepted combinations.
C8_InsertedBeforeArtifacts ==
    \A i \in 1..Len(json_files) : json_files[i].final_layers \in dna_set

\* C8 as amended: a combination is in the set only once its JSON file and its
\* image are written; it is not in the set while they are being written, and it
\* is in the set before the edition counter moves on.
C8_InsertedAfterArtifacts ==
    /\ \A c \in dna_set : HasJson(c) /\ HasImage(c)
    /\ pc \in {"image", "add"} => token_layers \notin dna_set
    /\ pc \in {"inc", "loop", "rich"} =>
          \A i \in 1..Len(json_files) : json_files[i].final_layers \in dna_set

\* C8 witness: the second token's combination has just been inserted, after its
\* two files.
C8_Witness ==
    /\ pc = "inc"
    /\ Len(json_files) = 2
    /\ Len(image_files) = 2
    /\ token_layers \in dna_set

\* C10: once run() has stopped, every edition with a JSON file has an image, and
\* its combination is in the set of accepted combinations.
C10_StoppedConsistent ==
    Stopped =>
        \A i \in 1..Len(json_files) :
            /\ \E j \in 1..Len(image_files) : image_files[j].file = json_files[i].file
            /\ json_files[i].final_layers \in dna_set

\* every entry of a rarities list that was left unrecorded is a zero: no recorded
\* list is longer than MaxRarLen, and the list of a flat layer that is not required
\* sums to 100 once a call has appended to it, so that every later call appends 0
RecordedExact ==
    \A l \in 1..Len(catalog) :
        /\ Len(config_file.layers[l].rarities) <= MaxRarLen
        /\ Len(catalog[l].appended) <= MaxRarLen
        /\ (~config_file.layers[l].has_types /\ ~config_file.layers[l].required) =>
              Sum(config_file.layers[l].rarities) = 100

\* the weights the configuration declares for layer l, as the first call read them
Declared(l) ==
    LET a == first_catalog[l].appended
    IN IF config_file.layers[l].required THEN a ELSE SubSeq(a, 1, Len(a) - 1)

\* C4: the candidate list and the weight list a call of join_layers builds for a
\* layer have the same length.
C4_AlignedLists ==
    \A l \in 1..Len(catalog) :
        Len(catalog[l].all_layers) = Len(catalog[l].all_rarities)

\* C4 witness: a draw has returned for a layer whose number of weights differed
\* from its number of candidates.
C4_Witness ==
    /\ pc = "check"
    /\ Len(catalog[1].appended) # Len(catalog[1].all_layers)

\* C5: the weights handed to the draw are the repaired weights w when these sum
\* to 100, and otherwise floor(w[i] * 100 / sum(w)) for each i, with a sum of at
\* most 100.
C5_NormalizationReference ==
    \A l \in 1..Len(catalog) :
        LET w == catalog[l].adjusted
            out == catalog[l].all_rarities
        IN Sum(w) > 0 =>
              IF Sum(w) = 100 THEN out = w
              ELSE /\ \A i \in 1..Len(w) : out[i] = (w[i] * 100) \div Sum(w)
                   /\ Sum(out) <= 100

\* C6: for a layer that is not required, the weight at the position of the "None"
\* candidate, before the normalisation, is 100 minus the sum of the declared weights.
C6_NoneWeight ==
    \A l \in 1..Len(catalog) :
        ~config_file.layers[l].required =>
            catalog[l].adjusted[Len(catalog[l].all_layers)] = 100 - Sum(Declared(l))

\* C9: every call of join_layers builds the candidate list and the weight list
\* that the first call built.
C9_SameListsEveryCall ==
    \A l \in 1..Len(catalog) :
        /\ catalog[l].all_layers = first_catalog[l].all_layers
        /\ catalog[l].all_rarities = first_catalog[l].all_rarities

\* C9 witness: a later call has returned after earlier calls made the rarities
\* list in memory longer than the first call left it.
C9_Witness ==
    /\ pc = "check"
    /\ Len(config_file.layers[1].rarities) > Len(first_catalog[1].appended) + 1
    /\ Len(first_catalog[1].appended) # Len(first_catalog[1].all_layers)

\* the number of distinct combinations a trial can draw
DrawableCount == Cardinality(Drawable)

\* the same number, from the lists of the last call
LastDrawableCount == Cardinality(LastDrawable)

\* in the loop the steps Call and FreshDraw stand for are steps of Next: a call
\* can be made, it returns or raises, and it can return what the last call could
C3_FairnessSound ==
    /\ (pc = "loop" /\ edition < desired_amount) =>
          FirstError # 0 \/ Drawable # {}
    /\ catalog # <<>> => LastDrawable = Drawable /\ DrawableCount = LastDrawableCount

\* C3 as claimed: with fewer drawable combinations than the requested amount the
\* loop never ends and trials go on forever; otherwise the loop ends.
C3_RetryOrTerminate ==
    /\ [](DrawableCount < config_file.amount => ~LoopEnded)
    /\ (catalog # <<>> /\ LastDrawableCount < config_file.amount) ~> (pc = "check")
    /\ (config_file.amount = 0 \/ (catalog # <<>> /\ LastDrawableCount >= config_file.amount))
          ~> LoopEnded

\* C3 as amended: with fewer drawable combinations than the requested amount the
\* loop never ends, and trials go on forever unless a failure aborts run();
\* otherwise the loop ends unless a failure aborts run(), and it ends when no
\* drawable combination makes the compositor fail. The first call is made.
C3_RetryOrTerminateOrAbort ==
    /\ [](DrawableCount < config_file.amount => ~LoopEnded)
    /\ (config_file.amount > 0) ~> (catalog # <<>>)
    /\ (catalog # <<>> /\ LastDrawableCount < config_file.amount)
          ~> (pc = "check" \/ pc = "aborted")
    /\ (config_file.amount = 0 \/ (catalog # <<>> /\ LastDrawableCount >= config_file.amount))
          ~> (LoopEnded \/ pc = "aborted")
    /\ (catalog # <<>> /\ LastDrawableCount >= config_file.amount
          /\ pc # "aborted" /\ \A c \in LastDrawable : ~ImageError(c))
          ~> LoopEnded

\* C3 witness: the loop has ended with as many tokens as there are drawable
\* combinations, all of them accepted.
C3_Witness ==
    /\ pc = "rich"
    /\ DrawableCount = 2
    /\ config_file.amount = 2
    /\ Len(image_files) = 2
    /\ dna_set = Drawable

\* C3 witness of the other case: a duplicate is drawn when every drawable
\* combination is accepted and the requested amount is not reached.
C3_WitnessRetry ==
    /\ pc = "check"
    /\ dna_set = Drawable
    /\ DrawableCount = 1
    /\ config_file.amount = 2

====
